---- MODULE Spec2Model ----
(* Buffer Manager of the paper feed (src/App.tsx) together with the        *)
(* fetch + enrich pipeline of the recommendation service                   *)
(* (src/unnamed/part_001).                                                 *)
(*                                                                         *)
(* React state (papers, likedPapers, loading) is the value of the last     *)
(* committed render: it is what the closures handleSwipe, the reload       *)
(* button and the effects read.  State updates made by the continuation   *)
(* of loadMorePapers after its await are queued (queue) and committed by   *)
(* the next render; updates made by a discrete user event (swipe, click)   *)
(* are committed at the end of that event together with everything that    *)
(* is queued, in the order the updates were enqueued.  The refs            *)
(* fetchingRef and nextStartIndexRef change at once.                       *)
EXTENDS Integers, Sequences, FiniteSets, TLC

\* ---------------------------------------------------------------- bounds
MaxId == 2          \* identifiers the upstream can return: 1..MaxId
MaxBatch == 2       \* longest raw batch one upstream answer holds
MaxCursor == 2      \* records the upstream result set holds for a session
MaxEntries == 2     \* longest JSON array the enrichment service answers
MaxTitles == 4      \* longest list of liked titles given to extractKeywords
MaxStartIndex == 101  \* largest cursor given to fetchFromArxiv on its own

\* ------------------------------------------------------ program constants
PREFETCH_THRESHOLD == 4
NumProxies == 2
RelevanceWindow == 50
KeepTitles == 3
KeepKeywords == 3
MinKeywordLength == 4
PageSize == 5

Ids == 1..MaxId
NullEntry == 0
Directions == {"left", "right"}

VARIABLES mounted, papers, likedPapers, loading, queue,
          fetchingRef, nextStartIndexRef, pipelines,
          resultSetSize,  \* how many records the upstream result set holds
          discarded,      \* history: the identifiers swiped left so far
          covered,        \* history: the recency offsets requested so far
          swipedOnEmpty,  \* history: a footer button was clicked on an empty buffer
          fn              \* a call of one of the pure functions, see FunctionSpec

vars == <<mounted, papers, likedPapers, loading, queue,
          fetchingRef, nextStartIndexRef, pipelines,
          resultSetSize, discarded, covered, swipedOnEmpty, fn>>

\* ---------------------------------------------------------------- helpers
RECURSIVE SeqsUpTo(_, _)
SeqsUpTo(S, n) ==
  IF n = 0 THEN {<<>>}
  ELSE LET shorter == SeqsUpTo(S, n - 1)
       IN  shorter \cup {Append(s, x) : s \in {t \in shorter : Len(t) = n - 1}, x \in S}

IdsOf(ps) == {ps[i].id : i \in DOMAIN ps}

IdSeq(ps) == [i \in DOMAIN ps |-> ps[i].id]

RemoveAt(s, i) == SubSeq(s, 1, i - 1) \o SubSeq(s, i + 1, Len(s))

\* ------------------------------------------------------------- enrichment
RawArxivPaper(i) == [id |-> i]

\* enrichedData.find(e => e.id === raw.id): the index of the first entry
\* that matches, 0 when none does, -1 when a null entry is reached first
\* (reading .id of null throws a TypeError).
RECURSIVE FindEntry(_, _, _)
FindEntry(enrichedData, id, k) ==
  IF k > Len(enrichedData) THEN 0
  ELSE IF enrichedData[k] = NullEntry THEN -1
  ELSE IF enrichedData[k] = id THEN k
  ELSE FindEntry(enrichedData, id, k + 1)

MergedPaper(raw, enrichedData) ==
  IF FindEntry(enrichedData, raw.id, 1) > 0
  THEN [id |-> raw.id, abstract_zh |-> "zh", tldr |-> "tldr", tags |-> "tags"]
  ELSE [id |-> raw.id, abstract_zh |-> "Translating", tldr |-> "title", tags |-> "New Paper"]

FallbackPaper(raw) ==
  [id |-> raw.id, abstract_zh |-> "Busy", tldr |-> "New ArXiv Paper", tags |-> "ArXiv"]

GeminiOutcomes ==
  {[kind |-> k, data |-> <<>>] : k \in {"callFail", "unparsable", "notArray"}}
  \cup {[kind |-> "array", data |-> d] : d \in SeqsUpTo(Ids \cup {NullEntry}, MaxEntries)}

\* The merge iterating over the answer instead of the raw records: a record
\* without an entry is dropped.
enrichPapersWithGeminiDropsUnmatched(rawPapers, outcome) ==
  IF outcome.kind # "array"
  THEN [i \in DOMAIN rawPapers |-> FallbackPaper(rawPapers[i])]
  ELSE LET matched == SelectSeq(rawPapers,
                                LAMBDA raw : \E k \in DOMAIN outcome.data :
                                               outcome.data[k] = raw.id)
       IN  [i \in DOMAIN matched |-> MergedPaper(matched[i], outcome.data)]

enrichPapersWithGemini(rawPapers, outcome) ==
  IF Len(rawPapers) = 0 THEN <<>>
  ELSE IF outcome.kind \in {"callFail", "notArray"}
       THEN [i \in DOMAIN rawPapers |-> FallbackPaper(rawPapers[i])]
  ELSE LET enrichedData == IF outcome.kind = "unparsable" THEN <<>> ELSE outcome.data
           throws == \E i \in DOMAIN rawPapers :
                        FindEntry(enrichedData, rawPapers[i].id, 1) = -1
       IN  IF throws
           THEN [i \in DOMAIN rawPapers |-> FallbackPaper(rawPapers[i])]
           ELSE [i \in DOMAIN rawPapers |-> MergedPaper(rawPapers[i], enrichedData)]

\* ------------------------------------------------------ keyword extractor
\* A title is the sequence of the pieces that split(/[\s\W]+/) cuts it
\* into; joining titles with " " concatenates these sequences.
SampleTitles ==
  {<<"Large", "Language", "Model", "Agents">>,
   <<"Autonomous", "Planning", "Systems">>,
   <<"Multi", "Agent", "Coordination">>,
   <<"", "The", "Art", "of", "LLM", "Use">>,
   <<"agents", "for", "Planning">>}

toLowerCase(w) ==
  CASE w = "Large" -> "large"
    [] w = "Language" -> "language"
    [] w = "Model" -> "model"
    [] w = "Agents" -> "agents"
    [] w = "Autonomous" -> "autonomous"
    [] w = "Planning" -> "planning"
    [] w = "Systems" -> "systems"
    [] w = "Multi" -> "multi"
    [] w = "Agent" -> "agent"
    [] w = "Coordination" -> "coordination"
    [] w = "The" -> "the"
    [] w = "Art" -> "art"
    [] w = "LLM" -> "llm"
    [] w = "Use" -> "use"
    [] OTHER -> w

\* w.length of a lowercased piece.
WordLength(w) ==
  CASE w = "" -> 0
    [] w = "of" -> 2
    [] w \in {"the", "art", "llm", "use", "for"} -> 3
    [] w \in {"large", "model", "multi", "agent"} -> 5
    [] w = "agents" -> 6
    [] w = "systems" -> 7
    [] w \in {"language", "planning"} -> 8
    [] w = "autonomous" -> 10
    [] w = "coordination" -> 12

stopWords ==
  {"the", "a", "an", "of", "for", "in", "on", "with", "to", "at", "by",
   "is", "are", "and", "or"}

\* titles.slice(-n)
LastN(s, n) == SubSeq(s, IF Len(s) > n THEN Len(s) - n + 1 ELSE 1, Len(s))

\* s.slice(0, n)
FirstN(s, n) == SubSeq(s, 1, IF Len(s) > n THEN n ELSE Len(s))

\* titles.join(" ") followed by the split: the pieces of all the titles.
RECURSIVE JoinSplit(_)
JoinSplit(titles) ==
  IF titles = <<>> THEN <<>> ELSE Head(titles) \o JoinSplit(Tail(titles))

\* [...new Set(keywords)]: first occurrences, in order.
RECURSIVE Dedupe(_)
Dedupe(s) ==
  IF s = <<>> THEN <<>>
  ELSE LET init == Dedupe(SubSeq(s, 1, Len(s) - 1))
           last == s[Len(s)]
       IN  IF \E i \in DOMAIN init : init[i] = last THEN init ELSE Append(init, last)

\* uniqueKeywords.map(k => `all:${k}`).join(" OR "): the terms <<"all", k>>
\* separated by <<"OR">>; the empty string is <<>>.
JoinOr(ks) ==
  [j \in 1..(2 * Len(ks) - 1) |->
     IF j % 2 = 1 THEN <<"all", ks[(j + 1) \div 2]>> ELSE <<"OR">>]

Qualifies(w) == WordLength(w) > MinKeywordLength /\ w \notin stopWords

\* extractKeywords over all the liked titles instead of the last three.
extractKeywordsAllTitles(titles) ==
  IF Len(titles) = 0 THEN <<>>
  ELSE LET recentTitles == JoinSplit(titles)
           words == [i \in DOMAIN recentTitles |-> toLowerCase(recentTitles[i])]
           keywords == SelectSeq(words, Qualifies)
           uniqueKeywords == FirstN(Dedupe(keywords), KeepKeywords)
       IN  IF Len(uniqueKeywords) = 0 THEN <<>> ELSE JoinOr(uniqueKeywords)

\* extractKeywords joining the last three titles most recent first.
extractKeywordsReversed(titles) ==
  IF Len(titles) = 0 THEN <<>>
  ELSE LET last == LastN(titles, KeepTitles)
           recentTitles == JoinSplit([i \in DOMAIN last |-> last[Len(last) + 1 - i]])
           words == [i \in DOMAIN recentTitles |-> toLowerCase(recentTitles[i])]
           keywords == SelectSeq(words, Qualifies)
           uniqueKeywords == FirstN(Dedupe(keywords), KeepKeywords)
       IN  IF Len(uniqueKeywords) = 0 THEN <<>> ELSE JoinOr(uniqueKeywords)

extractKeywords(titles) ==
  IF Len(titles) = 0 THEN <<>>
  ELSE LET recentTitles == JoinSplit(LastN(titles, KeepTitles))
           words == [i \in DOMAIN recentTitles |-> toLowerCase(recentTitles[i])]
           keywords == SelectSeq(words, Qualifies)
           uniqueKeywords == FirstN(Dedupe(keywords), KeepKeywords)
       IN  IF Len(uniqueKeywords) = 0 THEN <<>> ELSE JoinOr(uniqueKeywords)

\* --------------------------------------------------------- source fetcher
\* fetchFromArxiv up to its first await: the strategy and the start offset
\* of the request.  rnd is the outcome of Math.random() > 0.5.
useRelevanceStrategy(likedTitles, rnd) == Len(likedTitles) > 0 /\ rnd

\* The relevance request paginating with the cursor itself.
finalStartIndexNoWindow(startIndex, relevance) == startIndex

finalStartIndex(startIndex, relevance) ==
  IF relevance THEN startIndex % RelevanceWindow ELSE startIndex

\* One call of fetchRecommendations in flight, with what its caller
\* loadMorePapers captured.  pc is where the call is suspended:
\*   "proxy"    awaiting the answer of proxy number proxy
\*   "enrich"   awaiting the enrichment service
\*   "resolved" fetchRecommendations has settled with newPapers
\* seen is history: the identifiers swiped left before the call was made.
NewPipeline(currentLiked, isInitialLoad, startIndex, rnd) ==
  [currentLiked |-> currentLiked,
   isInitialLoad |-> isInitialLoad,
   startIndex |-> startIndex,
   relevance |-> useRelevanceStrategy(currentLiked, rnd),
   start |-> finalStartIndex(startIndex, useRelevanceStrategy(currentLiked, rnd)),
   pc |-> "proxy",
   proxy |-> 1,
   rawPapers |-> <<>>,
   newPapers |-> <<>>,
   seen |-> discarded]

\* ---------------------------------------------------------- buffer manager
\* loadMorePapers without its guard.
loadMorePapersNoGuard(fr, pl, currentLiked, isInitialLoad, cursor, rnd) ==
  [fetchingRef |-> TRUE,
   pipelines |-> Append(pl, NewPipeline(currentLiked, isInitialLoad, cursor, rnd)),
   started |-> TRUE]

\* The synchronous part of loadMorePapers: the guard, the flag and the
\* request.  Its result is the new flag, the calls in flight and whether
\* the call went past the guard.
loadMorePapers(fr, pl, currentLiked, isInitialLoad, cursor, rnd) ==
  IF fr
  THEN [fetchingRef |-> fr, pipelines |-> pl, started |-> FALSE]
  ELSE [fetchingRef |-> TRUE,
        pipelines |-> Append(pl, NewPipeline(currentLiked, isInitialLoad, cursor, rnd)),
        started |-> TRUE]

\* const uniqueNew = newPapers.filter(...)
uniqueNew(prev, newPapers, currentLiked) ==
  SelectSeq(newPapers,
            LAMBDA p : p.id \notin IdsOf(prev) /\ p.id \notin IdsOf(currentLiked))

\* One queued update of the papers state.
ApplyUpdate(prev, u) ==
  IF u.kind = "merge" THEN prev \o uniqueNew(prev, u.newPapers, u.currentLiked)
  ELSE prev

\* The render processes the queued updates in the order they were enqueued.
RECURSIVE ApplyQueue(_, _)
ApplyQueue(prev, q) ==
  IF q = <<>> THEN prev ELSE ApplyQueue(ApplyUpdate(prev, Head(q)), Tail(q))

\* The prefetch effect depending on likedPapers alone.
DepsChangedLikedOnly(np, nl) == nl # likedPapers

\* The prefetch effect without a dependency list: it runs after every commit.
DepsChangedAlways(np, nl) == TRUE

\* The prefetch effect with an empty dependency list: it runs on mount only.
DepsChangedNever(np, nl) == FALSE

\* The dependency list of the prefetch effect: [papers.length, likedPapers].
DepsChanged(np, nl) ==
  Len(np) # Len(papers) \/ nl # likedPapers

\* The prefetch effect without the threshold test.
BufferLowNoThreshold(np, fr) == ~fr /\ Len(np) > 0

\* The condition of the prefetch effect.
BufferLow(np, fr) == Len(np) < PREFETCH_THRESHOLD /\ ~fr /\ Len(np) > 0

\* The prefetch effect, run after a commit whose dependencies changed.
PrefetchEffect(np, nl, fr, pl, cursor, rnd) ==
  IF BufferLow(np, fr)
  THEN loadMorePapers(fr, pl, nl, FALSE, cursor, rnd)
  ELSE [fetchingRef |-> fr, pipelines |-> pl, started |-> FALSE]

\* A commit: the new state becomes the rendered state, nothing stays
\* queued, and the effects whose dependencies changed run.
Commit(np, nl, ld, fr, pl) ==
  /\ papers' = np
  /\ likedPapers' = nl
  /\ loading' = ld
  /\ queue' = <<>>
  /\ IF DepsChanged(np, nl)
     THEN \E rnd \in BOOLEAN :
            LET r == PrefetchEffect(np, nl, fr, pl, nextStartIndexRef, rnd)
            IN  fetchingRef' = r.fetchingRef /\ pipelines' = r.pipelines
     ELSE fetchingRef' = fr /\ pipelines' = pl

\* handleSwipe appending the card to the liked list whatever the direction.
handleSwipeLikesAll(ps, liked, direction) ==
  [papers |-> Tail(ps), likedPapers |-> Append(liked, Head(ps))]

\* handleSwipe: the rendered buffer without its front card and the liked
\* list after the swipe.
handleSwipe(ps, liked, direction) ==
  [papers |-> Tail(ps),
   likedPapers |-> IF direction = "right" THEN Append(liked, Head(ps)) ELSE liked]

\* The cursor advanced by the records that pass the filter.
AdvanceCursorUnique(cursor, newPapers) ==
  cursor + Len(uniqueNew(papers, newPapers, likedPapers))

\* The continuation of loadMorePapers after the await: the cursor and the
\* update it enqueues (the finally block always enqueues setLoading(false)).
AdvanceCursor(cursor, newPapers) ==
  IF Len(newPapers) > 0 THEN cursor + Len(newPapers) ELSE cursor

\* The offsets of the recency result set a settled request has fetched:
\* start..start+n-1 of a submittedDate request, none of a relevance request.
RecencyOffsets(p) ==
  IF p.relevance THEN {}
  ELSE p.start .. (p.start + Len(p.rawPapers) - 1)

CompletionUpdate(p) ==
  [kind |-> IF Len(p.newPapers) > 0 THEN "merge" ELSE "loading",
   newPapers |-> p.newPapers,
   currentLiked |-> p.currentLiked,
   seen |-> p.seen]

\* ------------------------------------------------- calls of pure functions
\* fn holds one call of extractKeywords, of the strategy selection of
\* fetchFromArxiv or of enrichPapersWithGemini: its arguments and, once done,
\* its result.  The application itself leaves fn at NoCall.
NoCall ==
  [op |-> "none", done |-> TRUE,
   titles |-> <<>>, startIndex |-> 0, rnd |-> FALSE,
   rawPapers |-> <<>>, outcome |-> [kind |-> "callFail", data |-> <<>>],
   keywords |-> <<>>, relevance |-> FALSE, start |-> 0, newPapers |-> <<>>]

KeywordCalls ==
  {[NoCall EXCEPT !.op = "extractKeywords", !.done = FALSE, !.titles = t] :
     t \in SeqsUpTo(SampleTitles, MaxTitles)}

StrategyCalls ==
  {[NoCall EXCEPT !.op = "fetchFromArxiv", !.done = FALSE,
                  !.titles = t, !.startIndex = c, !.rnd = r] :
     t \in SeqsUpTo(SampleTitles, 1), c \in 0..MaxStartIndex, r \in BOOLEAN}

EnrichCalls ==
  {[NoCall EXCEPT !.op = "enrichPapersWithGemini", !.done = FALSE,
                  !.rawPapers = [k \in DOMAIN ids |-> RawArxivPaper(ids[k])],
                  !.outcome = o] :
     ids \in SeqsUpTo(Ids, MaxBatch), o \in GeminiOutcomes}

\* ------------------------------------------------------------------ state
Init ==
  /\ mounted = FALSE
  /\ papers = <<>>
  /\ likedPapers = <<>>
  /\ loading = TRUE
  /\ queue = <<>>
  /\ fetchingRef = FALSE
  /\ nextStartIndexRef = 0
  /\ pipelines = <<>>
  /\ resultSetSize = MaxCursor
  /\ discarded = {}
  /\ swipedOnEmpty = FALSE
  /\ covered = {}
  /\ fn = NoCall

\* The initial-load effect calling loadMorePapers without isInitialLoad.
MountNotInitial ==
  /\ ~mounted
  /\ mounted' = TRUE
  /\ \E rnd \in BOOLEAN :
       LET r == loadMorePapers(fetchingRef, pipelines, <<>>, FALSE, nextStartIndexRef, rnd)
       IN  /\ fetchingRef' = r.fetchingRef
           /\ pipelines' = r.pipelines
  /\ UNCHANGED <<fn, resultSetSize, discarded, covered, swipedOnEmpty>>
  /\ UNCHANGED <<papers, likedPapers, loading, queue, nextStartIndexRef>>

\* First render and the initial-load effect; the prefetch effect finds the
\* buffer empty.
Mount ==
  /\ ~mounted
  /\ mounted' = TRUE
  /\ \E rnd \in BOOLEAN :
       LET r == loadMorePapers(fetchingRef, pipelines, <<>>, TRUE, nextStartIndexRef, rnd)
       IN  /\ fetchingRef' = r.fetchingRef
           /\ pipelines' = r.pipelines
           /\ loading' = (IF r.started THEN TRUE ELSE loading)
  /\ UNCHANGED <<fn, resultSetSize, discarded, covered, swipedOnEmpty>>
  /\ UNCHANGED <<papers, likedPapers, queue, nextStartIndexRef>>

\* A swipe of the front card (drag end of the card or a footer button).
\* setPapers(remainingPapers) is enqueued behind whatever is queued and
\* replaces its result.
Swipe(direction) ==
  /\ mounted
  /\ Len(papers) > 0
  /\ LET s == handleSwipe(papers, likedPapers, direction)
     IN  Commit(s.papers, s.likedPapers,
                IF queue # <<>> THEN FALSE ELSE loading,
                fetchingRef, pipelines)
  /\ discarded' = IF direction = "left"
                  THEN discarded \cup {Head(papers).id}
                  ELSE discarded
  /\ UNCHANGED <<fn, resultSetSize, covered, swipedOnEmpty>>
  /\ UNCHANGED <<mounted, nextStartIndexRef>>

\* papers[0] of an empty buffer.
Undefined ==
  [id |-> NullEntry, abstract_zh |-> "undefined", tldr |-> "undefined",
   tags |-> "undefined"]

\* manualSwipe without its guard: handleSwipe runs on the empty buffer.
SwipeOnEmptyUnguarded(direction) ==
  /\ mounted
  /\ Len(papers) = 0
  /\ Commit(<<>>,
            IF direction = "right" THEN Append(likedPapers, Undefined)
            ELSE likedPapers,
            IF queue # <<>> THEN FALSE ELSE loading,
            fetchingRef, pipelines)
  /\ swipedOnEmpty' = TRUE
  /\ UNCHANGED <<fn, resultSetSize, discarded, covered>>
  /\ UNCHANGED <<mounted, nextStartIndexRef>>

\* A click on a footer button while the rendered buffer is empty (no card is
\* rendered then, so no drag can end): manualSwipe returns at its guard,
\* no state is set and nothing is rendered.
SwipeOnEmpty(direction) ==
  /\ mounted
  /\ Len(papers) = 0
  /\ swipedOnEmpty' = TRUE
  /\ UNCHANGED <<fn, resultSetSize, discarded, covered>>
  /\ UNCHANGED <<mounted, papers, likedPapers, loading, queue,
                 fetchingRef, nextStartIndexRef, pipelines>>

\* The reload button requesting with an empty liked list, as the startup
\* fetch does.
ReloadEmptyContext ==
  /\ mounted
  /\ Len(papers) = 0
  /\ ~loading
  /\ \E rnd \in BOOLEAN :
       LET r == loadMorePapers(fetchingRef, pipelines, <<>>, TRUE,
                               nextStartIndexRef, rnd)
       IN  IF r.started
           THEN Commit(ApplyQueue(papers, queue), likedPapers, TRUE,
                       r.fetchingRef, r.pipelines)
           ELSE UNCHANGED <<papers, likedPapers, loading, queue,
                            fetchingRef, pipelines>>
  /\ UNCHANGED <<fn, resultSetSize, discarded, covered, swipedOnEmpty>>
  /\ UNCHANGED <<mounted, nextStartIndexRef>>

\* A click on "Try Reloading", shown while the rendered buffer is empty and
\* the rendered loading flag is false.
Reload ==
  /\ mounted
  /\ Len(papers) = 0
  /\ ~loading
  /\ \E rnd \in BOOLEAN :
       LET r == loadMorePapers(fetchingRef, pipelines, likedPapers, TRUE,
                               nextStartIndexRef, rnd)
       IN  IF r.started
           THEN Commit(ApplyQueue(papers, queue), likedPapers, TRUE,
                       r.fetchingRef, r.pipelines)
           ELSE UNCHANGED <<papers, likedPapers, loading, queue,
                            fetchingRef, pipelines>>
  /\ UNCHANGED <<fn, resultSetSize, discarded, covered, swipedOnEmpty>>
  /\ UNCHANGED <<mounted, nextStartIndexRef>>

\* The answer of one proxy.  A failure (network error, HTTP error, no feed
\* markup) moves on to the next proxy or, after the last, yields []; an
\* answer with feed markup yields its entries.  enrichPapersWithGemini
\* returns [] for an empty batch without calling the service.
Settle(p, raw) ==
  [p EXCEPT !.rawPapers = raw,
            !.pc = IF Len(raw) = 0 THEN "resolved" ELSE "enrich"]

\* The proxy loop starting over after the last proxy failed.
ProxyFailRetry(i) ==
  /\ i \in DOMAIN pipelines
  /\ pipelines[i].pc = "proxy"
  /\ LET p == pipelines[i]
     IN  pipelines' = [pipelines EXCEPT ![i] =
                         [p EXCEPT !.proxy = (p.proxy % NumProxies) + 1]]
  /\ UNCHANGED <<fn, resultSetSize, discarded, covered, swipedOnEmpty>>
  /\ UNCHANGED <<mounted, papers, likedPapers, loading, queue,
                 fetchingRef, nextStartIndexRef>>

ProxyFail(i) ==
  /\ i \in DOMAIN pipelines
  /\ pipelines[i].pc = "proxy"
  /\ LET p == pipelines[i]
     IN  pipelines' = [pipelines EXCEPT ![i] =
                         IF p.proxy < NumProxies
                         THEN [p EXCEPT !.proxy = p.proxy + 1]
                         ELSE Settle(p, <<>>)]
  /\ UNCHANGED <<fn, resultSetSize, discarded, covered, swipedOnEmpty>>
  /\ UNCHANGED <<mounted, papers, likedPapers, loading, queue,
                 fetchingRef, nextStartIndexRef>>

\* An answer with feed markup: the request settles with its entries, one of
\* batches.
ProxyAnswer(i, batches) ==
  /\ i \in DOMAIN pipelines
  /\ pipelines[i].pc = "proxy"
  /\ \E entries \in batches :
       /\ nextStartIndexRef + Len(entries) <= resultSetSize
       /\ pipelines' = [pipelines EXCEPT ![i] =
                          Settle(pipelines[i],
                                 [k \in DOMAIN entries |-> RawArxivPaper(entries[k])])]
  /\ UNCHANGED <<fn, resultSetSize, discarded, covered, swipedOnEmpty>>
  /\ UNCHANGED <<mounted, papers, likedPapers, loading, queue,
                 fetchingRef, nextStartIndexRef>>

\* A well-formed answer without entries treated as a failure of the proxy.
ProxyOkEmptyTriesNext(i) ==
  /\ i \in DOMAIN pipelines
  /\ pipelines[i].pc = "proxy"
  /\ \E entries \in SeqsUpTo(Ids, MaxBatch) :
       /\ nextStartIndexRef + Len(entries) <= resultSetSize
       /\ LET p == pipelines[i]
          IN  pipelines' = [pipelines EXCEPT ![i] =
                IF Len(entries) = 0 /\ p.proxy < NumProxies
                THEN [p EXCEPT !.proxy = p.proxy + 1]
                ELSE Settle(p, [k \in DOMAIN entries |-> RawArxivPaper(entries[k])])]
  /\ UNCHANGED <<fn, resultSetSize, discarded, covered, swipedOnEmpty>>
  /\ UNCHANGED <<mounted, papers, likedPapers, loading, queue,
                 fetchingRef, nextStartIndexRef>>

ProxyOk(i) == ProxyAnswer(i, SeqsUpTo(Ids, MaxBatch))

\* The answer (or failure) of the enrichment service.
EnrichRespond(i) ==
  /\ i \in DOMAIN pipelines
  /\ pipelines[i].pc = "enrich"
  /\ \E outcome \in GeminiOutcomes :
       LET p == pipelines[i]
       IN  pipelines' = [pipelines EXCEPT ![i] =
                           [p EXCEPT !.newPapers = enrichPapersWithGemini(p.rawPapers, outcome),
                                     !.pc = "resolved"]]
  /\ UNCHANGED <<fn, resultSetSize, discarded, covered, swipedOnEmpty>>
  /\ UNCHANGED <<mounted, papers, likedPapers, loading, queue,
                 fetchingRef, nextStartIndexRef>>

\* The flag cleared inside the if block rather than in finally.
CompleteFlagInTry(i) ==
  /\ i \in DOMAIN pipelines
  /\ pipelines[i].pc = "resolved"
  /\ nextStartIndexRef' = AdvanceCursor(nextStartIndexRef, pipelines[i].newPapers)
  /\ queue' = Append(queue, CompletionUpdate(pipelines[i]))
  /\ fetchingRef' = (IF Len(pipelines[i].newPapers) > 0 THEN FALSE ELSE fetchingRef)
  /\ pipelines' = RemoveAt(pipelines, i)
  /\ covered' = covered \cup RecencyOffsets(pipelines[i])
  /\ UNCHANGED <<fn, resultSetSize, discarded, swipedOnEmpty>>
  /\ UNCHANGED <<mounted, papers, likedPapers, loading>>

\* loadMorePapers resumes after the await and runs to its end.
Complete(i) ==
  /\ i \in DOMAIN pipelines
  /\ pipelines[i].pc = "resolved"
  /\ nextStartIndexRef' = AdvanceCursor(nextStartIndexRef, pipelines[i].newPapers)
  /\ queue' = Append(queue, CompletionUpdate(pipelines[i]))
  /\ fetchingRef' = FALSE
  /\ pipelines' = RemoveAt(pipelines, i)
  /\ covered' = covered \cup RecencyOffsets(pipelines[i])
  /\ UNCHANGED <<fn, resultSetSize, discarded, swipedOnEmpty>>
  /\ UNCHANGED <<mounted, papers, likedPapers, loading>>

\* The render scheduled by the updates of a completed fetch.
Render ==
  /\ queue # <<>>
  /\ Commit(ApplyQueue(papers, queue), likedPapers, FALSE, fetchingRef, pipelines)
  /\ UNCHANGED <<fn, resultSetSize, discarded, covered, swipedOnEmpty>>
  /\ UNCHANGED <<mounted, nextStartIndexRef>>

Next ==
  \/ Mount
  \/ \E direction \in Directions : Swipe(direction)
  \/ \E direction \in Directions : SwipeOnEmpty(direction)
  \/ Reload
  \/ \E i \in DOMAIN pipelines : ProxyFail(i)
  \/ \E i \in DOMAIN pipelines : ProxyOk(i)
  \/ \E i \in DOMAIN pipelines : EnrichRespond(i)
  \/ \E i \in DOMAIN pipelines : Complete(i)
  \/ Render

Spec == Init /\ [][Next]_vars

\* ------------------------------------------------- after the first page
\* The session once the startup fetch has landed with a full page
\* (max_results=5) of distinct, fully annotated records and has been
\* rendered: the buffer is above the prefetch threshold, so nothing is in
\* flight.  The upstream result set holds MaxCursor records beyond the page.
FirstPage ==
  [i \in 1..PageSize |-> MergedPaper(RawArxivPaper(i), <<i>>)]

BufferedInit ==
  /\ mounted = TRUE
  /\ papers = FirstPage
  /\ likedPapers = <<>>
  /\ loading = FALSE
  /\ queue = <<>>
  /\ fetchingRef = FALSE
  /\ nextStartIndexRef = PageSize
  /\ pipelines = <<>>
  /\ resultSetSize = PageSize + MaxCursor
  /\ discarded = {}
  /\ swipedOnEmpty = FALSE
  /\ covered = 0..(PageSize - 1)
  /\ fn = NoCall

BufferedNext ==
  \/ \E direction \in Directions : Swipe(direction)
  \/ \E direction \in Directions : SwipeOnEmpty(direction)
  \/ Reload
  \/ \E i \in DOMAIN pipelines : ProxyFail(i)
  \/ \E i \in DOMAIN pipelines : ProxyOk(i)
  \/ \E i \in DOMAIN pipelines : EnrichRespond(i)
  \/ \E i \in DOMAIN pipelines : Complete(i)
  \/ Render

BufferedSpec == BufferedInit /\ [][BufferedNext]_vars

\* ----------------------------------------------------------------- refill
\* The session of a user who does not swipe, against an upstream whose every
\* answer holds at least one record that is neither buffered nor liked.
\* The result set is long enough for the fetches a refill can take.
RefillIds == 1..PREFETCH_THRESHOLD

BringsNew(entries) ==
  \E k \in DOMAIN entries :
    entries[k] \notin IdsOf(papers) \cup IdsOf(likedPapers)

ProxyOkNew(i) ==
  ProxyAnswer(i, {e \in SeqsUpTo(RefillIds, MaxBatch) : BringsNew(e)})

RefillInit ==
  /\ mounted = FALSE
  /\ papers = <<>>
  /\ likedPapers = <<>>
  /\ loading = TRUE
  /\ queue = <<>>
  /\ fetchingRef = FALSE
  /\ nextStartIndexRef = 0
  /\ pipelines = <<>>
  /\ resultSetSize = PREFETCH_THRESHOLD * MaxBatch
  /\ discarded = {}
  /\ swipedOnEmpty = FALSE
  /\ covered = {}
  /\ fn = NoCall

RefillNext ==
  \/ Mount
  \/ \E i \in DOMAIN pipelines : pipelines[i].proxy < NumProxies /\ ProxyFail(i)
  \/ \E i \in DOMAIN pipelines : ProxyOkNew(i)
  \/ \E i \in DOMAIN pipelines : EnrichRespond(i)
  \/ \E i \in DOMAIN pipelines : Complete(i)
  \/ Render

\* The upstream calls settle, the continuation of a settled call runs and a
\* scheduled render happens.
RefillSpec ==
  /\ RefillInit
  /\ [][RefillNext]_vars
  /\ WF_vars(\E i \in DOMAIN pipelines :
               (pipelines[i].proxy < NumProxies /\ ProxyFail(i)) \/ ProxyOkNew(i))
  /\ WF_vars(\E i \in DOMAIN pipelines : EnrichRespond(i))
  /\ WF_vars(\E i \in DOMAIN pipelines : Complete(i))
  /\ WF_vars(Render)

\* ------------------------------------------------------ the pure functions
FunctionInit ==
  /\ mounted = FALSE
  /\ papers = <<>>
  /\ likedPapers = <<>>
  /\ loading = TRUE
  /\ queue = <<>>
  /\ fetchingRef = FALSE
  /\ nextStartIndexRef = 0
  /\ pipelines = <<>>
  /\ resultSetSize = MaxCursor
  /\ discarded = {}
  /\ swipedOnEmpty = FALSE
  /\ covered = {}
  /\ fn \in KeywordCalls \cup StrategyCalls \cup EnrichCalls

EvalKeywords ==
  /\ fn.op = "extractKeywords" /\ ~fn.done
  /\ fn' = [fn EXCEPT !.done = TRUE, !.keywords = extractKeywords(fn.titles)]
  /\ UNCHANGED <<mounted, papers, likedPapers, loading, queue, fetchingRef,
                 nextStartIndexRef, pipelines, resultSetSize, discarded, covered,
                 swipedOnEmpty>>

EvalStrategy ==
  /\ fn.op = "fetchFromArxiv" /\ ~fn.done
  /\ fn' = [fn EXCEPT
              !.done = TRUE,
              !.relevance = useRelevanceStrategy(fn.titles, fn.rnd),
              !.keywords = IF useRelevanceStrategy(fn.titles, fn.rnd)
                           THEN extractKeywords(fn.titles) ELSE <<>>,
              !.start = finalStartIndex(fn.startIndex,
                                        useRelevanceStrategy(fn.titles, fn.rnd))]
  /\ UNCHANGED <<mounted, papers, likedPapers, loading, queue, fetchingRef,
                 nextStartIndexRef, pipelines, resultSetSize, discarded, covered,
                 swipedOnEmpty>>

EvalEnrich ==
  /\ fn.op = "enrichPapersWithGemini" /\ ~fn.done
  /\ fn' = [fn EXCEPT !.done = TRUE,
                      !.newPapers = enrichPapersWithGemini(fn.rawPapers, fn.outcome)]
  /\ UNCHANGED <<mounted, papers, likedPapers, loading, queue, fetchingRef,
                 nextStartIndexRef, pipelines, resultSetSize, discarded, covered,
                 swipedOnEmpty>>

FunctionNext == EvalKeywords \/ EvalStrategy \/ EvalEnrich

FunctionSpec == FunctionInit /\ [][FunctionNext]_vars

\* The upstream calls settle, the continuation of a settled call runs and a
\* scheduled render happens.
FairSpec ==
  /\ Spec
  /\ WF_vars(\E i \in DOMAIN pipelines : ProxyFail(i) \/ ProxyOk(i))
  /\ WF_vars(\E i \in DOMAIN pipelines : EnrichRespond(i))
  /\ WF_vars(\E i \in DOMAIN pipelines : Complete(i))
  /\ WF_vars(Render)

\* ================================================================ claims

\* C1: no paper identifier occurs more than once across the buffer and the
\* liked list taken together.
NoDuplicateIds ==
  LET all == IdSeq(papers) \o IdSeq(likedPapers)
  IN  \A i, j \in DOMAIN all : all[i] = all[j] => i = j

\* C2: at most one fetch+enrich pipeline is outstanding; while the
\* fetch-in-flight flag is set no step issues a request, and a reload click
\* changes nothing at all.
AtMostOneFetch ==
  [][/\ Len(pipelines') <= 1
     /\ fetchingRef => Len(pipelines') <= Len(pipelines)
     /\ fetchingRef => ~Reload]_vars

ReloadWhileFetching ==
  /\ mounted /\ fetchingRef /\ Len(pipelines) = 1
  /\ Len(papers) = 0 /\ ~loading

\* C3: the cursor never decreases, and a fetch cycle that returned n raw
\* records moves it from c to c + n, whatever the filter drops.
CursorAdvance ==
  [][/\ nextStartIndexRef' >= nextStartIndexRef
     /\ \A i \in DOMAIN pipelines :
          Complete(i) =>
            nextStartIndexRef' = nextStartIndexRef + Len(pipelines[i].rawPapers)]_vars

CursorAdvancedAllDuplicates ==
  /\ queue # <<>>
  /\ Head(queue).kind = "merge"
  /\ uniqueNew(papers, Head(queue).newPapers, Head(queue).currentLiked) = <<>>
  /\ nextStartIndexRef = MaxCursor

\* C4: a swipe made while Idle that leaves 1..3 records issues exactly one
\* fetch, whose context is the liked list and the cursor after the swipe.
SwipeTriggersOneFetch ==
  [][\A d \in Directions :
       (Swipe(d) /\ ~fetchingRef /\ Len(papers') \in 1..(PREFETCH_THRESHOLD - 1)) =>
         /\ fetchingRef'
         /\ Len(pipelines) = 0
         /\ Len(pipelines') = 1
         /\ pipelines'[1].currentLiked = likedPapers'
         /\ pipelines'[1].startIndex = nextStartIndexRef'
         /\ pipelines'[1].pc = "proxy"]_vars

FetchAfterRightSwipe ==
  /\ fetchingRef /\ Len(pipelines) = 1
  /\ likedPapers # <<>>
  /\ pipelines[1].currentLiked = likedPapers
  /\ ~pipelines[1].isInitialLoad
  /\ pipelines[1].pc = "proxy" /\ pipelines[1].proxy = 1
  /\ pipelines[1].startIndex = nextStartIndexRef
  /\ Len(papers) \in 1..(PREFETCH_THRESHOLD - 1)

\* C5: a completed fetch whose batch holds no new unique record leaves the
\* buffer as it is, leaves the manager Idle and starts no fetch; a fetch is
\* only ever started by the mount, a swipe, a reload click or a render that
\* changed the buffer length.
NoRetryOnZeroUnique ==
  [][/\ \A i \in DOMAIN pipelines : Complete(i) => (~fetchingRef' /\ pipelines' = <<>>)
     /\ Len(pipelines') > Len(pipelines) =>
          \/ Mount
          \/ \E d \in Directions : Swipe(d)
          \/ Reload
          \/ Render /\ Len(papers') # Len(papers)
     /\ (Render /\ ApplyQueue(papers, queue) = papers) =>
          (papers' = papers /\ pipelines' = pipelines /\ fetchingRef' = fetchingRef)]_vars

ZeroUniqueBelowWatermark ==
  /\ ~fetchingRef /\ pipelines = <<>>
  /\ Len(queue) = 1
  /\ queue[1].kind = "merge"
  /\ ApplyQueue(papers, queue) = papers
  /\ Len(papers) \in 1..(PREFETCH_THRESHOLD - 1)

\* C6: whatever the enrichment service does, fetchRecommendations settles
\* with exactly the raw records' identifiers, in the same order.
EnrichmentOneToOne ==
  \A i \in DOMAIN pipelines :
    pipelines[i].pc = "resolved" =>
      IdSeq(pipelines[i].newPapers) = IdSeq(pipelines[i].rawPapers)

EnrichmentFellBack ==
  \E i \in DOMAIN pipelines :
    /\ pipelines[i].pc = "resolved"
    /\ Len(pipelines[i].rawPapers) = MaxBatch
    /\ pipelines[i].newPapers[1].abstract_zh = "Busy"

\* C7: a swipe removes exactly the front record; a right-swipe appends that
\* record, unmodified, to the end of the liked list; nothing else changes
\* the liked list.
SwipePopsFront ==
  [][/\ \A d \in Directions :
          Swipe(d) =>
            /\ papers' = Tail(papers)
            /\ likedPapers' = IF d = "right"
                              THEN Append(likedPapers, Head(papers))
                              ELSE likedPapers
     /\ likedPapers' # likedPapers => Swipe("right")]_vars

LikedTwoInSwipeOrder ==
  /\ Len(likedPapers) = 2
  /\ likedPapers[1].id # likedPapers[2].id
  /\ likedPapers[1].abstract_zh # likedPapers[2].abstract_zh

\* C8: the flag is set exactly while a call is outstanding (it is set in the
\* step that issues the request), and every fetch that started clears it.
FlagSetThenCleared ==
  /\ [](fetchingRef <=> pipelines # <<>>)
  /\ (fetchingRef ~> ~fetchingRef)

FlagClearedAfterEmptyBatch ==
  /\ ~fetchingRef /\ pipelines = <<>>
  /\ loading
  /\ queue # <<>> /\ queue[Len(queue)].kind = "loading"

\* C9: when every proxy has failed fetchRecommendations settles with the
\* empty sequence, and the completion leaves buffer, liked list and cursor
\* as they are and clears the flag.
TotalFailureIsEmptyBatch ==
  [][/\ \A i \in DOMAIN pipelines :
          (ProxyFail(i) /\ pipelines[i].proxy = NumProxies) =>
            (pipelines'[i].pc = "resolved" /\ pipelines'[i].newPapers = <<>>)
     /\ \A i \in DOMAIN pipelines :
          (Complete(i) /\ pipelines[i].newPapers = <<>>) =>
            /\ UNCHANGED <<papers, likedPapers, nextStartIndexRef>>
            /\ ~fetchingRef'
            /\ ApplyQueue(papers, queue') = ApplyQueue(papers, queue)
     /\ (Render /\ \A k \in DOMAIN queue : queue[k].kind = "loading") =>
          UNCHANGED <<papers, likedPapers, nextStartIndexRef>>]_vars

FailedFetchAfterLikes ==
  /\ ~fetchingRef /\ pipelines = <<>>
  /\ ~loading
  /\ likedPapers # <<>>
  /\ Len(queue) = 1 /\ queue[1].kind = "loading"
  /\ queue[1].currentLiked # likedPapers

\* C10: mounting issues exactly one fetch, with cursor 0, the empty liked
\* list and the loading flag true; once every issued fetch has landed and
\* been rendered the manager is Idle and the loading flag is false.
StartupFetch ==
  [][/\ Mount =>
          /\ Len(pipelines') = 1
          /\ pipelines'[1] = NewPipeline(<<>>, TRUE, 0, FALSE)
          /\ nextStartIndexRef' = 0
          /\ loading' /\ fetchingRef'
     /\ \A i \in DOMAIN pipelines : Complete(i) => (~fetchingRef' /\ queue' # <<>>)
     /\ Render => ~loading'
     /\ (mounted' /\ pipelines' = <<>> /\ queue' = <<>>) => (~loading' /\ ~fetchingRef')]_vars

StartupLanded ==
  /\ mounted /\ pipelines = <<>> /\ queue = <<>>
  /\ ~loading /\ ~fetchingRef
  /\ likedPapers = <<>>

\* C11: a fetch that is not an initial load (one issued by the prefetch
\* effect) starts only in a step taken while no fetch is in flight and whose
\* committed buffer, the one the effect looks at, holds between 1 and 3
\* records; none starts on an empty buffer or on one of 4 or more records.
PrefetchOnlyWhenLow ==
  [][\A i \in DOMAIN pipelines' :
       (i > Len(pipelines) /\ ~pipelines'[i].isInitialLoad) =>
         /\ ~fetchingRef
         /\ Len(papers') > 0
         /\ Len(papers') < PREFETCH_THRESHOLD]_vars

PrefetchAtThreeCards ==
  /\ Len(pipelines) = 1
  /\ ~pipelines[1].isInitialLoad
  /\ pipelines[1].pc = "proxy" /\ pipelines[1].proxy = 1
  /\ Len(papers) = PREFETCH_THRESHOLD - 1
  /\ papers = SubSeq(FirstPage, 3, PageSize)

\* C12: a reload taken on an empty buffer with no fetch in flight starts one
\* initial-load fetch at the cursor, whose context is the current liked
\* list, turns the loading flag on and leaves the liked list alone; a fetch
\* with the loading flag on leads to no fetch in flight and the flag off.
ReloadLikeStartup ==
  /\ [][(Reload /\ ~fetchingRef) =>
          /\ fetchingRef' /\ loading'
          /\ likedPapers' = likedPapers
          /\ Len(pipelines') = Len(pipelines) + 1
          /\ LET p == pipelines'[Len(pipelines')]
             IN  /\ p.isInitialLoad
                 /\ p.currentLiked = likedPapers
                 /\ p.startIndex = nextStartIndexRef
                 /\ p.pc = "proxy"]_vars
  /\ (fetchingRef /\ loading) ~> (~fetchingRef /\ ~loading)

ReloadWithLikes ==
  /\ fetchingRef /\ loading
  /\ likedPapers # <<>>
  /\ \E i \in DOMAIN pipelines :
       pipelines[i].isInitialLoad /\ pipelines[i].currentLiked = likedPapers

\* C13: no step puts into the buffer an identifier that had been swiped
\* left, and was out of the buffer, when the fetch that brings it was issued.
DiscardedNeverReturns ==
  [][\A k \in DOMAIN queue :
       \A id \in IdsOf(queue[k].newPapers) \cap queue[k].seen :
         id \notin IdsOf(papers) => id \notin IdsOf(papers')]_vars

\* C14: every offset below the cursor has been fetched by a request of the
\* recency strategy.
NoRecencyOffsetSkipped ==
  \A o \in 0..(nextStartIndexRef - 1) : o \in covered

\* C15: while the empty state is shown (buffer empty, loading flag false) no
\* fetch is in flight, so that the retry button starts one.
EmptyStateOnlyWhenIdle ==
  (mounted /\ Len(papers) = 0 /\ ~loading) => ~fetchingRef

\* C17: the proxies are tried in list order, one at a time.  A well-formed
\* answer settles the request with its entries, empty or not, at the proxy
\* that gave it; the next proxy is contacted only by the failure of the one
\* before it, never after an answer was accepted; the failure of the last
\* proxy settles the request with the empty sequence.
ProxiesInOrder ==
  [][\A i \in DOMAIN pipelines :
       (Len(pipelines') = Len(pipelines)) =>
         LET p == pipelines[i]
             q == pipelines'[i]
         IN  /\ q.proxy \in 1..NumProxies
             /\ q.proxy \in {p.proxy, p.proxy + 1}
             /\ q.proxy = p.proxy + 1 => (ProxyFail(i) /\ q.pc = "proxy")
             /\ p.pc # "proxy" => q.proxy = p.proxy
             /\ ProxyOk(i) =>
                  /\ q.proxy = p.proxy
                  /\ q.pc = IF q.rawPapers = <<>> THEN "resolved" ELSE "enrich"
             /\ (ProxyFail(i) /\ p.proxy = NumProxies) =>
                  /\ q.pc = "resolved"
                  /\ q.rawPapers = <<>> /\ q.newPapers = <<>>]_vars

SecondProxySupplied ==
  \E i \in DOMAIN pipelines :
    /\ pipelines[i].proxy = NumProxies
    /\ pipelines[i].pc = "enrich"
    /\ pipelines[i].rawPapers # <<>>

EnrichmentMatchesById ==
  (fn.op = "enrichPapersWithGemini" /\ fn.done) =>
    /\ Len(fn.newPapers) = Len(fn.rawPapers)
    /\ \A i \in DOMAIN fn.rawPapers :
         LET matched == /\ fn.outcome.kind = "array"
                        /\ \E k \in DOMAIN fn.outcome.data :
                             fn.outcome.data[k] = fn.rawPapers[i].id
             p == fn.newPapers[i]
         IN  /\ p.id = fn.rawPapers[i].id
             /\ IF matched
                THEN p.abstract_zh = "zh" /\ p.tldr = "tldr" /\ p.tags = "tags"
                ELSE /\ p.abstract_zh \in {"Translating", "Busy"}
                     /\ p.tags \in {"New Paper", "ArXiv"}

\* C19: extractKeywords returns at most 3 pairwise distinct keywords, each a
\* token of one of the last 3 titles, longer than 4 and no stop word, joined
\* with OR; the empty string exactly when there is no title or no token of
\* the last 3 titles qualifies.
KeywordsWellFormed ==
  (fn.op = "extractKeywords" /\ fn.done) =>
    LET out == fn.keywords
        n == (Len(out) + 1) \div 2
        ks == [i \in 1..n |-> out[2 * i - 1][2]]
        recent == {i \in DOMAIN fn.titles : i > Len(fn.titles) - 3}
        tokens == UNION {{toLowerCase(fn.titles[i][k]) : k \in DOMAIN fn.titles[i]} :
                           i \in recent}
        good == {w \in tokens : WordLength(w) > 4 /\ w \notin stopWords}
    IN  /\ out # <<>> => Len(out) % 2 = 1
        /\ \A j \in DOMAIN out :
             IF j % 2 = 1
             THEN Len(out[j]) = 2 /\ out[j][1] = "all"
             ELSE out[j] = <<"OR">>
        /\ n <= 3
        /\ \A i, j \in 1..n : ks[i] = ks[j] => i = j
        /\ \A i \in 1..n : ks[i] \in good
        /\ out = <<>> <=> good = {}
        /\ fn.titles = <<>> => out = <<>>

FourthTitleIgnored ==
  /\ fn.op = "extractKeywords" /\ fn.done
  /\ Len(fn.titles) = 4
  /\ fn.titles[1] = <<"Multi", "Agent", "Coordination">>
  /\ fn.titles[2] = <<"", "The", "Art", "of", "LLM", "Use">>
  /\ fn.titles[3] = <<"agents", "for", "Planning">>
  /\ fn.titles[4] = fn.titles[2]
  /\ fn.keywords = <<<<"all", "agents">>, <<"OR">>, <<"all", "planning">>>>

\* C20 as stated: the keywords are ordered by first occurrence in the last 3
\* titles joined most recent first.
KeywordsMostRecentFirst ==
  (fn.op = "extractKeywords" /\ fn.done) =>
    LET out == fn.keywords
        n == (Len(out) + 1) \div 2
        ks == [i \in 1..n |-> out[2 * i - 1][2]]
        last == LastN(fn.titles, 3)
        joined == JoinSplit([i \in DOMAIN last |-> last[Len(last) + 1 - i]])
        FirstPos(w) == CHOOSE i \in DOMAIN joined :
                         /\ toLowerCase(joined[i]) = w
                         /\ \A j \in 1..(i - 1) : toLowerCase(joined[j]) # w
    IN  \A i, j \in 1..n : i < j => FirstPos(ks[i]) < FirstPos(ks[j])

\* C20 amended: the keywords are ordered by first occurrence in the last 3
\* titles joined in the order they were liked (oldest of the three first),
\* and they are the first qualifying tokens in that order, so with more than
\* 3 qualifying tokens the oldest of the last 3 likes is represented first.
KeywordsInLikedOrder ==
  (fn.op = "extractKeywords" /\ fn.done) =>
    LET out == fn.keywords
        n == (Len(out) + 1) \div 2
        ks == [i \in 1..n |-> out[2 * i - 1][2]]
        joined == JoinSplit(LastN(fn.titles, 3))
        FirstPos(w) == CHOOSE i \in DOMAIN joined :
                         /\ toLowerCase(joined[i]) = w
                         /\ \A j \in 1..(i - 1) : toLowerCase(joined[j]) # w
    IN  /\ \A i, j \in 1..n : i < j => FirstPos(ks[i]) < FirstPos(ks[j])
        /\ \A k \in DOMAIN joined :
             (n > 0 /\ k < FirstPos(ks[n]) /\ Qualifies(toLowerCase(joined[k]))) =>
               \E i \in 1..n : ks[i] = toLowerCase(joined[k])

MostRecentLikeUnrepresented ==
  /\ fn.op = "extractKeywords" /\ fn.done
  /\ fn.titles = << <<"Large", "Language", "Model", "Agents">>,
                    <<"Autonomous", "Planning", "Systems">> >>
  /\ fn.keywords = <<<<"all", "large">>, <<"OR">>, <<"all", "language">>,
                     <<"OR">>, <<"all", "model">>>>

\* C23: whenever the relevance strategy is picked, the keyword fragment put
\* into the query is non-empty.
RelevanceKeywordsNonEmpty ==
  (fn.op = "fetchFromArxiv" /\ fn.done /\ fn.relevance) => fn.keywords # <<>>

\* C21: without swipes and with every fetch bringing a new record, a commit
\* that changes the buffer length to 1..3 has a fetch in flight behind it,
\* and from every state with no fetch in flight and 1..3 records buffered
\* the buffer comes to hold at least 4 records.
RefillUntilThreshold ==
  /\ [][(Len(papers') # Len(papers) /\ Len(papers') \in 1..(PREFETCH_THRESHOLD - 1))
          => (fetchingRef' /\ Len(pipelines') = 1)]_vars
  /\ (~fetchingRef /\ Len(papers) \in 1..(PREFETCH_THRESHOLD - 1))
       ~> (Len(papers) >= PREFETCH_THRESHOLD)

RefilledByChain ==
  /\ Len(papers) >= PREFETCH_THRESHOLD
  /\ ~fetchingRef /\ pipelines = <<>> /\ queue = <<>>
  /\ nextStartIndexRef > MaxBatch
  /\ Cardinality(covered) = nextStartIndexRef

\* C22: the buffer changes only by a completed fetch appending its new
\* unique records behind the buffered ones and by a swipe popping the front
\* card: whenever a render commits, the new buffer is the old one with every
\* queued merge applied, without its front card if the step is a swipe.
NoRecordLostToSwipe ==
  [][(queue' = <<>> \/ papers' # papers) =>
       LET merged == ApplyQueue(papers, queue)
       IN  \/ papers' = merged
           \/ merged # <<>> /\ papers' = Tail(merged)]_vars

\* C24: a swipe delivered while the buffer is empty leaves the buffer
\* empty, the liked list, the cursor and the queued updates as they are and
\* issues no fetch; the liked list never holds an undefined record.
EmptySwipeIsNoOp ==
  /\ [][\A d \in Directions :
          SwipeOnEmpty(d) =>
            /\ papers = <<>> /\ papers' = <<>>
            /\ likedPapers' = likedPapers
            /\ nextStartIndexRef' = nextStartIndexRef
            /\ queue' = queue
            /\ pipelines' = pipelines
            /\ fetchingRef' = fetchingRef]_vars
  /\ [](\A k \in DOMAIN likedPapers : likedPapers[k] # Undefined)

EmptySwipeDelivered ==
  /\ swipedOnEmpty
  /\ papers = <<>>
  /\ ~loading
  /\ likedPapers # <<>>

====
